---- MODULE Spec2Model ----
(***************************************************************************)
(* Model of station_climo_flight_rules.py: ceiling detection (find_ceiling),*)
(* flight-rule classification (calculate_flight_rules) and the batch loop  *)
(* of __main__ that combines the per-station DataFrames.                   *)
(*                                                                         *)
(* A DataFrame is a sequence of rows; a row is a record of its columns.    *)
(* The DatetimeIndex set by parse_csv_to_dataframe is the column `valid`.  *)
(* A cell is a record [k, v, t]: a number (k = "num", value v), NaN, pd.NA *)
(* or a non-numeric text t.  Visibility values are counted in 1/VisUnit    *)
(* statute miles so that fractional visibilities are integers.             *)
(***************************************************************************)
EXTENDS Integers, Sequences, FiniteSets, TLC

VARIABLES
    pc,            \* __main__: "loop" (276-307), "report" (from 313), "crashed"
    next_station,  \* index into station_codes of the station the loop is at
    station_dfs,   \* list of processed DataFrames (line 274)
    combined,      \* combined_df (line 310)
    outcome,       \* history: per station, <<>> if skipped, else the saved df
    station_df,    \* one station's df taken through lines 285-294
    step           \* how far: "csv", "parsed", "ceiling", "rules"

vars == <<pc, next_station, station_dfs, combined, outcome, station_df, step>>

----------------------------------------------------------------------------
(* Bounds *)

MaxStations == 3
MaxRows == 2
VisUnit == 4
MaxVisMiles == 7
MaxCeilHundreds == 26

----------------------------------------------------------------------------
(* Cells *)

Num(n) == [k |-> "num", v |-> n, t |-> ""]
NaN == [k |-> "NaN", v |-> 0, t |-> ""]
NA == [k |-> "NA", v |-> 0, t |-> ""]
Text(s) == [k |-> "text", v |-> 0, t |-> s]

\* pd.to_numeric(x, errors='coerce'): numbers stay, everything else is NaN
to_numeric(c) == IF c.k = "num" THEN c ELSE NaN

\* Series.fillna(value)
fillna(c, n) == IF c.k = "num" THEN c ELSE Num(n)

\* pandas comparisons: any comparison with NaN is False
Ge(c, n) == c.k = "num" /\ c.v >= n
Le(c, n) == c.k = "num" /\ c.v <= n
Lt(c, n) == c.k = "num" /\ c.v < n

----------------------------------------------------------------------------
(* parse_csv_to_dataframe and the conversion of line 288 *)

parse_csv_to_dataframe(csv) ==
    [j \in DOMAIN csv |->
        [csv[j] EXCEPT !.vsby = IF @ = Text("M") THEN NA ELSE @]]

VsbyToNumeric(df) ==
    [j \in DOMAIN df |-> [df[j] EXCEPT !.vsby = to_numeric(@)]]

----------------------------------------------------------------------------
(* find_ceiling *)

Layers == 1..3

IsCeilingCode(code) == code \in {"BKN", "OVC", "VV"}

\* first layer, in the order skyc1, skyc2, skyc3, with a ceiling code; 0 if none
FirstCeilingLayer(row) ==
    LET m == {l \in Layers : IsCeilingCode(row.skyc[l])}
    IN IF m = {} THEN 0 ELSE CHOOSE l \in m : \A o \in m : l <= o

\* the value one iteration of the row loop assigns
RowCeiling(row) ==
    LET l == FirstCeilingLayer(row)
    IN IF l = 0 THEN Num(99999) ELSE to_numeric(row.skyl[l])

\* df.at[index, 'ceiling'] = value.  The label is the row's timestamp; when
\* the index holds the label more than once, .at falls back to .loc and the
\* assignment reaches every row carrying that label.
AtSet(df, col, label, value) ==
    [j \in DOMAIN df |-> IF df[j].valid = label THEN value ELSE col[j]]

RECURSIVE CeilingLoop(_, _, _)
CeilingLoop(df, col, n) ==
    IF n > Len(df) THEN col
    ELSE CeilingLoop(df, AtSet(df, col, df[n].valid, RowCeiling(df[n])), n + 1)

\* whole function; the column is created holding NaN by the first assignment.
\* Heights are whole feet here, which astype(int) leaves as they are.
find_ceiling(df) ==
    LET col == CeilingLoop(df, [j \in DOMAIN df |-> NaN], 1)
    IN [j \in DOMAIN df |->
           df[j] @@ [ceiling |-> fillna(to_numeric(col[j]), 99999)]]

----------------------------------------------------------------------------
(* calculate_flight_rules *)

\* variants of the four predicates with one comparison or one term changed,
\* used to show that the checked properties depend on the predicates
VFR_CeilingAbove(c, v) == Ge(c, 2501) /\ Ge(v, 6 * VisUnit)

VFR_VisAbove5(c, v) == Ge(c, 2500) /\ Ge(v, 5 * VisUnit + 1)

MVFR_VisCapped(c, v) ==
    \/ Ge(c, 1000) /\ Lt(c, 2500) /\ Ge(v, 3 * VisUnit) /\ Le(v, 5 * VisUnit)
    \/ Ge(c, 2500) /\ Ge(v, 3 * VisUnit) /\ Le(v, 5 * VisUnit)

MVFR_VisUncapped(c, v) ==
    \/ Ge(c, 1000) /\ Lt(c, 2500) /\ Ge(v, 3 * VisUnit)
    \/ Ge(c, 2500) /\ Ge(v, 3 * VisUnit)

IFR_VisUpTo3(c, v) ==
    \/ Ge(c, 400) /\ Lt(c, 1000) /\ Ge(v, 1 * VisUnit)
    \/ Ge(c, 1000) /\ Ge(v, 1 * VisUnit) /\ Le(v, 3 * VisUnit)

LIFR_NotVisGe1(c, v) == Lt(c, 400) \/ ~Ge(v, 1 * VisUnit)

VFR(c, v) == Ge(c, 2500) /\ Ge(v, 6 * VisUnit)

MVFR(c, v) ==
    \/ Ge(c, 1000) /\ Lt(c, 2500) /\ Ge(v, 3 * VisUnit) /\ Le(v, 5 * VisUnit)
    \/ Ge(c, 1000) /\ Lt(c, 2500) /\ Ge(v, 3 * VisUnit)
    \/ Ge(c, 2500) /\ Ge(v, 3 * VisUnit) /\ Le(v, 5 * VisUnit)

IFR(c, v) ==
    \/ Ge(c, 400) /\ Lt(c, 1000) /\ Ge(v, 1 * VisUnit) /\ Lt(v, 3 * VisUnit)
    \/ Ge(c, 400) /\ Lt(c, 1000) /\ Ge(v, 1 * VisUnit)
    \/ Ge(c, 1000) /\ Ge(v, 1 * VisUnit) /\ Lt(v, 3 * VisUnit)

LIFR(c, v) == Lt(c, 400) \/ Lt(v, 1 * VisUnit)

calculate_flight_rules(df) ==
    [j \in DOMAIN df |->
        LET c == to_numeric(df[j].ceiling)
            v == to_numeric(df[j].vsby)
        IN [df[j] EXCEPT !.ceiling = c, !.vsby = v]
           @@ [VFR |-> VFR(c, v), MVFR |-> MVFR(c, v),
               IFR |-> IFR(c, v), LIFR |-> LIFR(c, v)]]

----------------------------------------------------------------------------
(* combine_dataframes *)

AllStationCodes ==
    <<"CYEG", "CYYC", "EHAM", "EHBK", "EHEH", "EHRD", "LFPO", "LFST", "TKPK",
      "KMLB", "KMCN", "KVQQ", "CYMX", "KMZJ", "KSLN", "KINT", "KLCQ">>

\* the first MaxStations entries of the station list
station_codes == SubSeq(AllStationCodes, 1, MaxStations)

RECURSIVE concat(_)
concat(dfs) == IF dfs = <<>> THEN <<>> ELSE Head(dfs) \o concat(Tail(dfs))

\* the loop of lines 255-256: the n-th DataFrame of the list gets the n-th code
TagStations(dfs, codes) ==
    [n \in DOMAIN dfs |->
        [j \in DOMAIN dfs[n] |-> dfs[n][j] @@ [Station |-> codes[n]]]]

combine_dataframes(dfs, codes) == concat(TagStations(dfs, codes))

----------------------------------------------------------------------------
(* __main__: the batch loop *)

\* a row of the provider's CSV for station s; src and seq record where the
\* row came from (the station requested and the row's place in the answer)
CsvRow(s, q, ts, codes, heights, vis) ==
    [src |-> s, seq |-> q, valid |-> ts, skyc |-> codes, skyl |-> heights,
     vsby |-> vis]

SampleWeather ==
    { [skyc |-> <<"OVC", "M", "M">>,
       skyl |-> <<Num(800), Text("M"), Text("M")>>, vsby |-> Num(10 * VisUnit)],
      [skyc |-> <<"FEW", "M", "M">>,
       skyl |-> <<Num(3000), Text("M"), Text("M")>>, vsby |-> Text("M")] }

\* the answers fetch_data may return for station s: 0..MaxRows hourly rows
Responses(s) ==
    UNION { { [q \in 1..n |->
                 CsvRow(s, q, q, w[q].skyc, w[q].skyl, w[q].vsby)] :
              w \in [1..n -> SampleWeather] } : n \in 0..MaxRows }

\* lines 285-294 on one answer
ProcessCsv(csv) ==
    calculate_flight_rules(find_ceiling(VsbyToNumeric(parse_csv_to_dataframe(csv))))

Init ==
    /\ pc = "loop"
    /\ next_station = 1
    /\ station_dfs = <<>>
    /\ combined = <<>>
    /\ outcome = <<>>
    /\ station_df = <<>>
    /\ step = "off"

\* an exception inside the try block before the append (fetch_data raising on
\* a status other than 200, a failed save): the except clause prints, the
\* loop goes on
StationRaises ==
    /\ pc = "loop"
    /\ next_station <= Len(station_codes)
    /\ outcome' = Append(outcome, <<>>)
    /\ next_station' = next_station + 1
    /\ UNCHANGED <<pc, station_dfs, combined, station_df, step>>

\* the try block on an answer.  With no data row the frame never gets a
\* 'ceiling' column and line 80 raises KeyError, which the except clause
\* catches like any other failure.
StationProcessed ==
    /\ pc = "loop"
    /\ next_station <= Len(station_codes)
    /\ \E csv \in Responses(next_station) :
          IF Len(csv) = 0
          THEN /\ outcome' = Append(outcome, <<>>)
               /\ UNCHANGED station_dfs
          ELSE /\ station_dfs' = Append(station_dfs, ProcessCsv(csv))
               /\ outcome' = Append(outcome, ProcessCsv(csv))
    /\ next_station' = next_station + 1
    /\ UNCHANGED <<pc, combined, station_df, step>>

\* line 310.  pd.concat of an empty list raises ValueError outside any try.
\* Otherwise the program goes on to the reporting part (lines 313-339), which
\* only reads the combined rows and is not modelled.
\* The tagging loop assigns the column on the DataFrames of the list itself.
Combine ==
    /\ pc = "loop"
    /\ next_station > Len(station_codes)
    /\ IF station_dfs = <<>>
       THEN /\ pc' = "crashed"
            /\ UNCHANGED <<station_dfs, combined>>
       ELSE /\ pc' = "report"
            /\ station_dfs' = TagStations(station_dfs, station_codes)
            /\ combined' = combine_dataframes(station_dfs, station_codes)
    /\ UNCHANGED <<next_station, outcome, station_df, step>>

Next == StationRaises \/ StationProcessed \/ Combine

Spec == Init /\ [][Next]_vars

----------------------------------------------------------------------------
(* Lines 285-294 on one station's answer, one step per action *)

\* lines 285 and 288
Parse ==
    /\ step = "csv"
    /\ station_df' = VsbyToNumeric(parse_csv_to_dataframe(station_df))
    /\ step' = "parsed"
    /\ UNCHANGED <<pc, next_station, station_dfs, combined, outcome>>

\* line 291
FindCeiling ==
    /\ step = "parsed"
    /\ station_df' = find_ceiling(station_df)
    /\ step' = "ceiling"
    /\ UNCHANGED <<pc, next_station, station_dfs, combined, outcome>>

\* line 294
Classify ==
    /\ step = "ceiling"
    /\ station_df' = calculate_flight_rules(station_df)
    /\ step' = "rules"
    /\ UNCHANGED <<pc, next_station, station_dfs, combined, outcome>>

NextStation == Parse \/ FindCeiling \/ Classify

NoBatch ==
    /\ pc = "off"
    /\ next_station = 0
    /\ station_dfs = <<>>
    /\ combined = <<>>
    /\ outcome = <<>>

(* Answers of 1..MaxRows rows with every combination of cover codes *)

CoverCodes == {"BKN", "OVC", "VV", "FEW", "M"}

\* the height reported for layer l when it is a number
LayerFeet == <<300, 800, 3000>>

\* a row's heights: a number in every layer, or the missing marker in every layer
HeightCells ==
    { [l \in Layers |-> Num(LayerFeet[l])], [l \in Layers |-> Text("M")] }

VisCells == {Text("M"), Num(VisUnit \div 2), Num(10 * VisUnit)}

\* timestamps of n consecutive rows: each row repeats the previous row's
\* timestamp or is one hour later
Timestamps(n) ==
    {f \in [1..n -> 1..n] :
        /\ f[1] = 1
        /\ \A j \in 1..(n - 1) : f[j + 1] \in {f[j], f[j] + 1}}

InitCeiling ==
    /\ \E n \in 1..MaxRows :
         \E ts \in Timestamps(n), c \in [1..n -> [Layers -> CoverCodes]],
            h \in [1..n -> HeightCells], v \in [1..n -> VisCells] :
            station_df = [q \in 1..n |-> CsvRow(1, q, ts[q], c[q], h[q], v[q])]
    /\ step = "csv"
    /\ NoBatch

SpecCeiling == InitCeiling /\ [][NextStation]_vars

(* Answers of one row whose ceiling and visibility sweep the thresholds *)

\* heights at, just below and just above every hundred feet
SweepFeet == {100 * h + d : h \in 0..MaxCeilHundreds, d \in {-1, 0, 1}}

\* visibilities from 0 to MaxVisMiles in steps of 1/VisUnit mile, and the
\* missing marker "M"
SweepVis == {Text("M")} \cup {Num(q) : q \in 0..(VisUnit * MaxVisMiles)}

\* layer 1 reports a ceiling at one of the heights, or no layer is a ceiling
SweepSky ==
    { [skyc |-> <<code, "M", "M">>, skyl |-> <<Num(h), Text("M"), Text("M")>>] :
        code \in {"BKN", "OVC", "VV"}, h \in SweepFeet }
    \cup { [skyc |-> <<"FEW", "M", "M">>,
            skyl |-> <<Num(3000), Text("M"), Text("M")>>] }

InitRules ==
    /\ \E sky \in SweepSky, vis \in SweepVis :
          station_df = <<CsvRow(1, 1, 1, sky.skyc, sky.skyl, vis)>>
    /\ step = "csv"
    /\ NoBatch

SpecRules == InitRules /\ [][NextStation]_vars

----------------------------------------------------------------------------
(* Properties *)

\* C1: every observation of the combined dataset carries in Station the code
\* of the station it was fetched for, whichever stations were skipped.
C1_StationTagIsOrigin ==
    pc = "report" =>
        \A j \in DOMAIN combined :
            combined[j].Station = station_codes[combined[j].src]

\* C2: whichever stations fail, the loop runs to its end and the combined
\* dataset is the concatenation, in station-list order, of the processed
\* stations' datasets: every observation once, in its station's order, none
\* from a skipped station.
C2_CombinedIsConcatenation ==
    (next_station > Len(station_codes) /\ pc # "loop") =>
        /\ pc = "report"
        /\ \A j \in DOMAIN combined :
              LET s == combined[j].src
                  q == combined[j].seq
              IN /\ q \in DOMAIN outcome[s]
                 /\ \A f \in DOMAIN outcome[s][q] :
                       combined[j][f] = outcome[s][q][f]
        /\ \A j, m \in DOMAIN combined :
              j < m =>
                 \/ combined[j].src < combined[m].src
                 \/ /\ combined[j].src = combined[m].src
                    /\ combined[j].seq < combined[m].seq
        /\ \A s \in DOMAIN outcome : \A q \in DOMAIN outcome[s] :
              \E j \in DOMAIN combined :
                 combined[j].src = s /\ combined[j].seq = q

\* C3 as stated: with visibility missing, all four flags are false for every
\* ceiling.
C3_MissingVisNoCategory ==
    step = "rules" =>
        \A j \in DOMAIN station_df :
            station_df[j].vsby.k # "num" =>
                /\ ~station_df[j].VFR
                /\ ~station_df[j].MVFR
                /\ ~station_df[j].IFR
                /\ ~station_df[j].LIFR

\* C3 amended: with visibility missing, VFR, MVFR and IFR are false and LIFR
\* is true exactly when the ceiling is below 400 ft.
C3_MissingVisOnlyCeilingLIFR ==
    step = "rules" =>
        \A j \in DOMAIN station_df :
            station_df[j].vsby.k # "num" =>
                /\ ~station_df[j].VFR
                /\ ~station_df[j].MVFR
                /\ ~station_df[j].IFR
                /\ station_df[j].LIFR <=> station_df[j].ceiling.v < 400

C3_Witness ==
    /\ step = "rules"
    /\ station_df[1].vsby = NaN
    /\ station_df[1].ceiling = Num(399)
    /\ station_df[1].LIFR
    /\ ~station_df[1].VFR /\ ~station_df[1].MVFR /\ ~station_df[1].IFR

\* C4: for every observation the ceiling is an integer: the height of the
\* first of layers 1, 2, 3 whose code is BKN, OVC or VV if that height is a
\* number, 99999 if it is not, and 99999 if no layer has such a code.
C4_CeilingIsFirstCeilingLayer ==
    step \in {"ceiling", "rules"} =>
        \A j \in DOMAIN station_df :
            LET r == station_df[j]
                hit(l) == r.skyc[l] = "BKN" \/ r.skyc[l] = "OVC" \/ r.skyc[l] = "VV"
                feet(l) == IF r.skyl[l].k = "num" THEN r.skyl[l].v ELSE 99999
                ref == IF hit(1) THEN feet(1)
                       ELSE IF hit(2) THEN feet(2)
                       ELSE IF hit(3) THEN feet(3)
                       ELSE 99999
            IN r.ceiling.k = "num" /\ r.ceiling.v = ref

\* C5: with visibility >= 6 exactly one flag is set, by the ceiling band:
\* LIFR below 400, IFR in [400, 1000), MVFR in [1000, 2500), VFR from 2500.
C5_BandsAtGoodVisibility ==
    step = "rules" =>
        \A j \in DOMAIN station_df :
            LET r == station_df[j]
                c == r.ceiling.v
            IN (r.vsby.k = "num" /\ r.vsby.v >= 6 * VisUnit) =>
                  /\ r.LIFR <=> c < 400
                  /\ r.IFR <=> (400 <= c /\ c < 1000)
                  /\ r.MVFR <=> (1000 <= c /\ c < 2500)
                  /\ r.VFR <=> c >= 2500

C5_Witness ==
    /\ step = "rules"
    /\ station_df[1].ceiling = Num(2500)
    /\ station_df[1].vsby = Num(6 * VisUnit)
    /\ station_df[1].VFR
    /\ ~station_df[1].MVFR /\ ~station_df[1].IFR /\ ~station_df[1].LIFR

\* C6: with visibility defined, MVFR is true exactly when
\* (1000 <= ceiling < 2500 and visibility >= 3) or
\* (ceiling >= 2500 and 3 <= visibility <= 5).
C6_MVFRRefinedPolicy ==
    step = "rules" =>
        \A j \in DOMAIN station_df :
            LET r == station_df[j]
                c == r.ceiling.v
                v == r.vsby.v
            IN r.vsby.k = "num" =>
                  (r.MVFR <=>
                      \/ 1000 <= c /\ c < 2500 /\ v >= 3 * VisUnit
                      \/ c >= 2500 /\ 3 * VisUnit <= v /\ v <= 5 * VisUnit)

C6_Witness ==
    /\ step = "rules"
    /\ station_df[1].ceiling = Num(2000)
    /\ station_df[1].vsby = Num(6 * VisUnit + 1)
    /\ station_df[1].MVFR

\* C7: with visibility defined, IFR is true exactly when
\* (400 <= ceiling < 1000 and visibility >= 1) or
\* (ceiling >= 1000 and 1 <= visibility < 3).
C7_IFRRefinedPolicy ==
    step = "rules" =>
        \A j \in DOMAIN station_df :
            LET r == station_df[j]
                c == r.ceiling.v
                v == r.vsby.v
            IN r.vsby.k = "num" =>
                  (r.IFR <=>
                      \/ 400 <= c /\ c < 1000 /\ v >= 1 * VisUnit
                      \/ c >= 1000 /\ 1 * VisUnit <= v /\ v < 3 * VisUnit)

C7_Witness ==
    /\ step = "rules"
    /\ station_df[1].ceiling = Num(1000)
    /\ station_df[1].vsby = Num(3 * VisUnit)
    /\ ~station_df[1].IFR
    /\ station_df[1].MVFR

\* C8: an observation none of whose layers has a ceiling-forming code gets
\* flags decided by visibility alone: VFR exactly when visibility >= 6, LIFR
\* exactly when visibility < 1, and nothing but VFR from visibility 6 on.
C8_NoCeilingFlagsFollowVisibility ==
    step = "rules" =>
        \A j \in DOMAIN station_df :
            LET r == station_df[j]
            IN (\A l \in 1..3 : r.skyc[l] \notin {"BKN", "OVC", "VV"}) =>
                  /\ r.VFR <=> (r.vsby.k = "num" /\ r.vsby.v >= 6 * VisUnit)
                  /\ r.LIFR <=> (r.vsby.k = "num" /\ r.vsby.v < 1 * VisUnit)
                  /\ r.VFR => (~r.MVFR /\ ~r.IFR /\ ~r.LIFR)

\* C9: for every ceiling and every visibility, defined or missing, at most
\* one of VFR, MVFR, IFR, LIFR is true.
C9_AtMostOneFlag ==
    step = "rules" =>
        \A j \in DOMAIN station_df :
            LET r == station_df[j]
            IN /\ ~(r.VFR /\ r.MVFR) /\ ~(r.VFR /\ r.IFR) /\ ~(r.VFR /\ r.LIFR)
               /\ ~(r.MVFR /\ r.IFR) /\ ~(r.MVFR /\ r.LIFR)
               /\ ~(r.IFR /\ r.LIFR)

C9_Witness ==
    /\ step = "rules"
    /\ station_df[1].ceiling = Num(2500)
    /\ station_df[1].vsby = Num(5 * VisUnit)
    /\ station_df[1].MVFR
    /\ ~station_df[1].VFR /\ ~station_df[1].IFR /\ ~station_df[1].LIFR

\* C10: with visibility defined and non-negative, all four flags are false
\* exactly when ceiling >= 2500 and 5 < visibility < 6.
C10_GapBetween5And6 ==
    step = "rules" =>
        \A j \in DOMAIN station_df :
            LET r == station_df[j]
                c == r.ceiling.v
                v == r.vsby.v
            IN (r.vsby.k = "num" /\ v >= 0) =>
                  ((~r.VFR /\ ~r.MVFR /\ ~r.IFR /\ ~r.LIFR) <=>
                      (c >= 2500 /\ 5 * VisUnit < v /\ v < 6 * VisUnit))

C10_Witness ==
    /\ step = "rules"
    /\ station_df[1].ceiling = Num(99999)
    /\ station_df[1].vsby = Num(5 * VisUnit + 1)
    /\ ~station_df[1].VFR /\ ~station_df[1].MVFR
    /\ ~station_df[1].IFR /\ ~station_df[1].LIFR

====
